---- MODULE Spec2Model ----
(***************************************************************************)
(* A model of pybwrap (src/src/pybwrap): the Bwrap argument builder, its   *)
(* path translation, its environment instructions and the feature          *)
(* decorator of BwrapSandbox.                                               *)
(*                                                                          *)
(* Python str values are TLA+ strings (TLC evaluates Len, SubSeq and \o on *)
(* them); a pathlib.PurePosixPath is a record [root, parts]; Python None   *)
(* is the value None below.                                                *)
(***************************************************************************)
EXTENDS Integers, Sequences, FiniteSets, TLC

VARIABLES
    opts,      \* the keyword options given to the constructor (Bwrap.Options)
    host,      \* what the host answers: HOME, cwd, environment, device nodes, globs
    phase,     \* "new" before __init__, "ready" after it, "failed" if it raised
    self,      \* the immutable fields of the instance (user, home, host_cwd, ...)
    args,      \* self.args, the instruction list
    pipes,     \* the pipes created by openfd, oldest first
    enabled,   \* self._enabled_features
    raised,    \* the exception the last call raised, "" if it returned
    last,      \* the last call: its name, its arguments and the state it started from
    calls,     \* the calls made on the instance so far, oldest first
    registry   \* the features declared with @feature: name -> [depends, body]

vars == <<opts, host, phase, self, args, pipes, enabled, raised, last, calls, registry>>

\* Python's None (never a path or a value of the input sets below).
None == "<None>"

-----------------------------------------------------------------------------
(* Sequences and strings *)

RECURSIVE Flatten(_)
Flatten(ss) == IF ss = <<>> THEN <<>> ELSE Head(ss) \o Flatten(Tail(ss))

IsPrefix(s, t) == Len(s) <= Len(t) /\ SubSeq(t, 1, Len(s)) = s

Contains(s, x) == \E i \in 1..Len(s) : s[i] = x

\* The least index of x in s, 0 when absent.
IndexOf(s, x) ==
    IF Contains(s, x) THEN CHOOSE i \in 1..Len(s) : s[i] = x /\ \A j \in 1..(i-1) : s[j] # x
    ELSE 0

\* Whether seg occurs in s starting at index i.
OccursAt(s, seg, i) == i >= 1 /\ i + Len(seg) - 1 <= Len(s) /\ SubSeq(s, i, i + Len(seg) - 1) = seg

\* The Python slice s[i-1:j] of a str: out-of-range ends are clipped.
Slice(s, i, j) ==
    LET hi == IF j > Len(s) THEN Len(s) ELSE j
    IN  IF i < 1 \/ i > hi THEN "" ELSE SubSeq(s, i, hi)

Digits == <<"0", "1", "2", "3", "4", "5", "6", "7", "8", "9">>

\* str(n) of a non-negative int.
RECURSIVE IntStr(_)
IntStr(n) == IF n < 10 THEN Digits[n + 1] ELSE IntStr(n \div 10) \o Digits[(n % 10) + 1]

\* str.split("/") from position i on, cur being the piece under construction.
RECURSIVE SplitAt(_, _, _)
SplitAt(s, i, cur) ==
    IF i > Len(s) THEN <<cur>>
    ELSE IF Slice(s, i, i) = "/" THEN <<cur>> \o SplitAt(s, i + 1, "")
    ELSE SplitAt(s, i + 1, cur \o Slice(s, i, i))

RECURSIVE JoinWith(_, _)
JoinWith(sep, ss) ==
    IF ss = <<>> THEN ""
    ELSE IF Len(ss) = 1 THEN ss[1]
    ELSE ss[1] \o sep \o JoinWith(sep, Tail(ss))

RECURSIVE DropEmptyAndDot(_)
DropEmptyAndDot(ss) ==
    IF ss = <<>> THEN <<>>
    ELSE IF Head(ss) = "" \/ Head(ss) = "." THEN DropEmptyAndDot(Tail(ss))
    ELSE <<Head(ss)>> \o DropEmptyAndDot(Tail(ss))

-----------------------------------------------------------------------------
(* pathlib.PurePosixPath, as far as the program uses it *)

\* posixpath.splitroot: one leading slash is the root, exactly two are the root "//".
SplitRoot(s) ==
    IF Slice(s, 1, 1) # "/" THEN [root |-> "", rel |-> s]
    ELSE IF Slice(s, 2, 2) # "/" \/ Slice(s, 3, 3) = "/"
         THEN [root |-> "/", rel |-> Slice(s, 2, Len(s))]
         ELSE [root |-> "//", rel |-> Slice(s, 3, Len(s))]

\* Path(s)
Path(s) ==
    LET sr == SplitRoot(s)
    IN  [root |-> sr.root, parts |-> DropEmptyAndDot(SplitAt(sr.rel, 1, ""))]

\* str(p)
Str(p) ==
    IF p.root = "" /\ p.parts = <<>> THEN "."
    ELSE p.root \o JoinWith("/", p.parts)

is_absolute(p) == p.root # ""

\* a / b
Div(a, b) == IF b.root # "" THEN b ELSE [root |-> a.root, parts |-> a.parts \o b.parts]

\* A relative_to that raises for the directory itself: only paths strictly below pass.
is_relative_to_strictly_below(p, other) ==
    p.root = other.root /\ IsPrefix(other.parts, p.parts) /\ Len(p.parts) > Len(other.parts)

\* A relative_to that compares the strings: str(p).startswith(str(other)).
is_relative_to_startswith(p, other) ==
    p.root = other.root /\ Len(p.parts) >= Len(other.parts)
    /\ Len(Str(p)) >= Len(Str(other)) /\ Slice(Str(p), 1, Len(Str(other))) = Str(other)

\* Whether p.relative_to(other) returns (otherwise it raises ValueError).
is_relative_to(p, other) == p.root = other.root /\ IsPrefix(other.parts, p.parts)

\* p.relative_to(other), where it returns.
relative_to(p, other) ==
    [root |-> "", parts |-> SubSeq(p.parts, Len(other.parts) + 1, Len(p.parts))]

\* path.ensure_path of one argument: a str becomes a Path, a Path stays.
ensure_path(x) == Path(x)

-----------------------------------------------------------------------------
(* The host and the constructor's options *)

\* The environment variables the program reads with os.getenv.
EnvNames ==
    { "COLORTERM", "EDITOR", "LANG", "LC_ALL", "LC_TIME", "NO_AT_BRIDGE", "PAGER",
      "SHELL", "TERM", "WINEDEBUG", "WINEFSYNC", "XDG_BACKEND", "XDG_SEAT",
      "XDG_SESSION_CLASS", "XDG_SESSION_ID", "XDG_SESSION_TYPE",
      "DBUS_SESSION_BUS_ADDRESS", "DISPLAY", "XAUTHORITY", "WAYLAND_DISPLAY",
      "__GL_THREADED_OPTIMIZATION", "XDG_RUNTIME_DIR", "XDG_CACHE_HOME", "Y", "Z" }

\* An environment in which exactly the variables of the function e are set.
Environ(e) == [n \in EnvNames |-> IF n \in DOMAIN e THEN e[n] ELSE None]

\* The glob patterns the features expand, relative to XDG_RUNTIME_DIR or absolute.
NoGlob ==
    [ICE |-> <<>>, wayland |-> <<>>, pulse |-> <<>>, pipewire |-> <<>>, nvidia |-> <<>>]

\* A desktop host: the user works under the home directory, an Nvidia GPU is present.
DesktopHost ==
    [ HOME |-> "/home/alice", cwd |-> "/home/alice/work", login |-> "alice",
      hostname |-> "box", uid |-> 1000, gid |-> 1000,
      env |-> Environ([LANG |-> "C", TERM |-> "xterm", SHELL |-> "/bin/zsh",
                       DISPLAY |-> ":0", WAYLAND_DISPLAY |-> "wayland-0",
                       XDG_RUNTIME_DIR |-> "/run/user/1000", Y |-> "2"]),
      nvidiactl |-> TRUE,
      glob |-> [NoGlob EXCEPT !.wayland = <<"/run/user/1000/wayland-0">>,
                              !.pulse = <<"/run/user/1000/pulse">>,
                              !.nvidia = <<"/dev/nvidia0", "/dev/nvidiactl">>] ]

\* A server host: the working directory is outside the home directory, no Nvidia
\* device, LC_ALL is set, the login name is the sandbox's default user name.
ServerHost ==
    [ HOME |-> "/home/user", cwd |-> "/srv/data", login |-> "user",
      hostname |-> "srv", uid |-> 1001, gid |-> 100,
      env |-> Environ([LC_ALL |-> "C", TERM |-> "vt100",
                       XDG_CACHE_HOME |-> "/var/cache/me"]),
      nvidiactl |-> FALSE,
      glob |-> NoGlob ]

\* A desktop host without the Nvidia device: the home directory's name is a string
\* prefix of another directory's, Y is not in the environment.
LaptopHost ==
    [ HOME |-> "/home/al", cwd |-> "/home/alice", login |-> "al",
      hostname |-> "lap", uid |-> 1000, gid |-> 1000,
      env |-> Environ([LANG |-> "en", DISPLAY |-> ":1", Z |-> "3"]),
      nvidiactl |-> FALSE,
      glob |-> [NoGlob EXCEPT !.ICE = <<"/run/user/1000/ICE-1">>] ]

Hosts == {DesktopHost, ServerHost, LaptopHost}

\* constants.HOME = Path.home()
HOME(h) == Path(h.HOME)

\* constants._xdg_path: the variable's value if set, else the fallback.
xdg_path(h, var_name, fallback) ==
    IF h.env[var_name] # None THEN Path(h.env[var_name]) ELSE fallback

XDG_RUNTIME_DIR(h) == xdg_path(h, "XDG_RUNTIME_DIR", Path("/run/user/" \o IntStr(h.uid)))
XDG_CACHE_HOME(h) == xdg_path(h, "XDG_CACHE_HOME", Div(HOME(h), Path(".cache")))

\* constants.SHELL
SHELL(h) == IF h.env["SHELL"] # None THEN h.env["SHELL"] ELSE "/usr/bin/bash"

DEFAULT_PATH ==
    << ".local/bin", "go/bin", "/usr/local/bin", "/usr/local/sbin",
       "/usr/bin", "/usr/sbin", "/bin", "/sbin" >>

\* Bwrap.DEFAULT_OPTIONS, the hostname f"sandbox-{os.getpid()}" with the pid left symbolic.
DEFAULT_OPTIONS ==
    [ user |-> "user", hostname |-> "sandbox-pid", keep_user |-> FALSE,
      keep_hostname |-> FALSE, profile |-> None, etc_binds |-> <<>>,
      clearenv |-> TRUE, path |-> DEFAULT_PATH, keep_child |-> FALSE, rootfs |-> None ]

\* The option records the constructor is called with (etc_binds <<>> stands for the
\* default None: both make `self.etc_binds or ("/etc",)` choose ("/etc",)).
OptionSets ==
    { DEFAULT_OPTIONS,
      [DEFAULT_OPTIONS EXCEPT !.user = "testuser", !.hostname = "testhost",
                              !.etc_binds = <<"group", "passwd", "hostname">>],
      [DEFAULT_OPTIONS EXCEPT !.keep_user = TRUE, !.keep_hostname = TRUE,
                              !.clearenv = FALSE, !.keep_child = TRUE],
      [DEFAULT_OPTIONS EXCEPT !.profile = "/home/alice/profiles/p1", !.path = <<>>],
      [DEFAULT_OPTIONS EXCEPT !.rootfs = "/mnt/rootfs"] }

-----------------------------------------------------------------------------
(* The state a call works on: w.me are the instance's fields, w.h the host *)

BindModes == {"rw", "ro", "dev"}

\* Bwrap.BIND_OPTIONS
BIND_OPTIONS == [mode |-> "ro", asis |-> FALSE, src_anchor |-> None, dest_anchor |-> None]

\* dict | dict of Python: the right operand's keys win.
Merged(left, right) == right @@ left

\* d.get(k, default)
Get(d, k, default) == IF k \in DOMAIN d THEN d[k] ELSE default

\* A raise: the first exception ends the call, what follows it is not executed.
Raise(w, exc) == IF w.raised # "" THEN w ELSE [w EXCEPT !.raised = exc]

\* self.args.extend(tokens)
Extend(w, tokens) == IF w.raised # "" THEN w ELSE [w EXCEPT !.args = @ \o tokens]

\* str(None), the value resolve_path returns for an absent path.
NoPath == [root |-> None, parts |-> <<>>]
PStr(p) == IF p.root = None THEN "None" ELSE Str(p)

\* Bwrap.resolve_path; path and anchor are str or None.
\* A resolve_path that asks for the working directory when it is called: Path.cwd().
resolve_path_cwd_at_call(w, path, translate, anchor) ==
    IF path = None THEN NoPath
    ELSE LET p0 == ensure_path(path)
             base == IF anchor = None \/ anchor = "" THEN Path(w.h.cwd) ELSE Path(anchor)
             p == IF ~is_absolute(p0) THEN Div(base, p0) ELSE p0
         IN  IF translate /\ is_relative_to(p, HOME(w.h))
             THEN Div(w.me.home, relative_to(p, HOME(w.h)))
             ELSE p

resolve_path(w, path, translate, anchor) ==
    IF path = None THEN NoPath
    ELSE LET p0 == ensure_path(path)
             base == IF anchor = None \/ anchor = "" THEN w.me.host_cwd ELSE Path(anchor)
             p == IF ~is_absolute(p0) THEN Div(base, p0) ELSE p0
         IN  IF translate /\ is_relative_to(p, HOME(w.h))
             THEN Div(w.me.home, relative_to(p, HOME(w.h)))
             ELSE p

\* Bwrap.format_bind_args
format_bind_args(src, dest, mode) ==
    CASE mode = "rw" -> <<"--bind-try", src, dest>>
      [] mode = "ro" -> <<"--ro-bind-try", src, dest>>
      [] mode = "dev" -> <<"--dev-bind-try", src, dest>>

\* A bind that resolves the source like the destination, translated into the sandbox.
bind_translating_src(w, src, dest, kwargs) ==
    LET o == Merged(BIND_OPTIONS, kwargs)
        d == IF dest = None \/ dest = "" THEN src ELSE dest
    IN  IF src = None THEN Raise(w, "TypeError")
        ELSE IF o.mode \notin BindModes THEN Raise(w, "KeyError")
        ELSE Extend(w, format_bind_args(
                 PStr(resolve_path(w, src, ~o.asis, o.src_anchor)),
                 PStr(resolve_path(w, d, ~o.asis, o.dest_anchor)),
                 o.mode))

\* Bwrap.bind(src, dest, **kwargs); dest None when omitted.
\* A bind that formats an absent source like any other value: str(None).
bind_formatting_none(w, src, dest, kwargs) ==
    LET o == Merged(BIND_OPTIONS, kwargs)
        d == IF dest = None \/ dest = "" THEN src ELSE dest
    IN  IF o.mode \notin BindModes THEN Raise(w, "KeyError")
        ELSE IF src = None
        THEN Extend(w, format_bind_args("None",
                 IF d = None THEN "None" ELSE PStr(resolve_path(w, d, ~o.asis, o.dest_anchor)),
                 o.mode))
        ELSE Extend(w, format_bind_args(
                 PStr(resolve_path(w, src, FALSE, o.src_anchor)),
                 PStr(resolve_path(w, d, ~o.asis, o.dest_anchor)),
                 o.mode))

bind(w, src, dest, kwargs) ==
    LET o == Merged(BIND_OPTIONS, kwargs)
        d == IF dest = None \/ dest = "" THEN src ELSE dest
    IN  IF src = None THEN Raise(w, "TypeError")
        ELSE IF o.mode \notin BindModes THEN Raise(w, "KeyError")
        ELSE Extend(w, format_bind_args(
                 PStr(resolve_path(w, src, FALSE, o.src_anchor)),
                 PStr(resolve_path(w, d, ~o.asis, o.dest_anchor)),
                 o.mode))

\* An entry bound as self.bind(**(bind | opts)): the shared options override the dict.
bind_entry_shared_wins(w, e, o) ==
    IF e.isdict
    THEN LET m == Merged(e.d, o)
         IN  IF "src" \notin DOMAIN m THEN Raise(w, "TypeError")
             ELSE bind(w, m.src, Get(m, "dest", None), m)
    ELSE bind(w, e.p, None, o)

\* One entry of bind_all: a dict is bound as self.bind(**(opts | bind)), a path as
\* self.bind(bind, **opts).
bind_entry(w, e, o) ==
    IF e.isdict
    THEN LET m == Merged(o, e.d)
         IN  IF "src" \notin DOMAIN m THEN Raise(w, "TypeError")
             ELSE bind(w, m.src, Get(m, "dest", None), m)
    ELSE bind(w, e.p, None, o)

\* Bwrap.bind_all(*binds, **kwargs)
RECURSIVE bind_each(_, _, _)
bind_each(w, binds, o) ==
    IF binds = <<>> \/ w.raised # "" THEN w
    ELSE bind_each(bind_entry(w, Head(binds), o), Tail(binds), o)

bind_all(w, binds, kwargs) == bind_each(w, binds, Merged(BIND_OPTIONS, kwargs))

\* A bare path and a dict as entries of bind_all.
P(path) == [isdict |-> FALSE, p |-> path]
D(dict) == [isdict |-> TRUE, d |-> dict]

RECURSIVE Paths(_)
Paths(ps) == IF ps = <<>> THEN <<>> ELSE <<P(Head(ps))>> \o Paths(Tail(ps))

\* Bwrap.symlink(*symlink_spec)
RECURSIVE symlink(_, _)
symlink(w, symlink_spec) ==
    IF symlink_spec = <<>> \/ w.raised # "" THEN w
    ELSE LET src == resolve_path(w, Head(symlink_spec)[1], TRUE, None)
             dest == resolve_path(w, Head(symlink_spec)[2], TRUE, None)
         IN  symlink(Extend(w, <<"--symlink", PStr(src), PStr(dest)>>), Tail(symlink_spec))

\* Bwrap.dir(*dirs)
RECURSIVE dir(_, _)
dir(w, dirs) ==
    IF dirs = <<>> \/ w.raised # "" THEN w
    ELSE dir(Extend(w, <<"--dir", PStr(resolve_path(w, Head(dirs), TRUE, None))>>), Tail(dirs))

\* Bwrap.tmpfs(*paths)
RECURSIVE tmpfs(_, _)
tmpfs(w, paths) ==
    IF paths = <<>> \/ w.raised # "" THEN w
    ELSE tmpfs(Extend(w, <<"--tmpfs", PStr(resolve_path(w, Head(paths), TRUE, None))>>),
               Tail(paths))

-----------------------------------------------------------------------------
(* Content channels, files and the environment *)

\* File content: a str (bytes FALSE) or a bytes object (bytes TRUE) of the same characters.
Text(s) == [bytes |-> FALSE, s |-> s]
Bytes(s) == [bytes |-> TRUE, s |-> s]

\* str.encode()
encode(content) == [bytes |-> TRUE, s |-> content.s]

\* The read end os.pipe() returns next: descriptors 0..2 are taken, none is closed.
NextFd(w) == 3 + 2 * Len(w.pipes)

\* Bwrap.openfd: the pipe is created, the content written to its write end, the read
\* end returned (NextFd of the world before the call); no end is closed.
openfd(w, content) ==
    IF w.raised # "" THEN w
    ELSE [w EXCEPT !.pipes = Append(@,
            [ r |-> NextFd(w), w |-> NextFd(w) + 1,
              data |-> IF content.bytes THEN content ELSE encode(content),
              r_open |-> TRUE, w_open |-> TRUE, inheritable |-> TRUE ])]

\* Bwrap.openfd_at: the world after it; fd and dest are FdOf and DestOf.
\* An openfd_at without the test of perms: it emits the directive for every call.
openfd_at_always_perms(w, content, dest, kwargs) ==
    LET perms == Get(kwargs, "perms", None)
    IN  openfd(Extend(w, <<"--perms", perms>>), content)

openfd_at(w, content, dest, kwargs) ==
    LET perms == Get(kwargs, "perms", None)
        w1 == IF perms # None /\ perms # "" THEN Extend(w, <<"--perms", perms>>) ELSE w
    IN  openfd(w1, content)

DestOf(w, dest, kwargs) ==
    resolve_path(w, dest, ~Get(kwargs, "asis", FALSE), Get(kwargs, "anchor", None))

\* Bwrap.file
file(w, content, dest, kwargs) ==
    Extend(openfd_at(w, content, dest, kwargs),
           <<"--file", IntStr(NextFd(w)), PStr(DestOf(w, dest, kwargs))>>)

\* Bwrap.bind_data
bind_data(w, content, dest, mode, kwargs) ==
    LET w1 == openfd_at(w, content, dest, kwargs)
        fd == IntStr(NextFd(w))
        d == PStr(DestOf(w, dest, kwargs))
    IN  IF mode = "ro" THEN Extend(w1, <<"--ro-bind-data", fd, d>>)
        ELSE IF mode = "rw" THEN Extend(w1, <<"--bind-data", fd, d>>)
        ELSE w1

\* The values setenv is given: None, a str, an int or a Path.
VNone == [t |-> "none", s |-> "None", n |-> 0]
VStr(s) == [t |-> "str", s |-> s, n |-> 0]
VInt(n) == [t |-> "int", s |-> "", n |-> n]
VPath(p) == [t |-> "path", s |-> Str(p), n |-> 0]

\* str(value)
PyStr(v) == IF v.t = "int" THEN IntStr(v.n) ELSE v.s

\* A setenv that returns at the first pair it skips instead of going on to the next.
RECURSIVE setenv_stops_at_skip(_, _)
setenv_stops_at_skip(w, kwargs) ==
    IF kwargs = <<>> \/ w.raised # "" THEN w
    ELSE LET var == Head(kwargs)[1]
             value == Head(kwargs)[2]
         IN  IF value.t = "none" \/ var = "LC_ALL" THEN w
             ELSE setenv_stops_at_skip(Extend(w, <<"--setenv", var, PyStr(value)>>),
                                       Tail(kwargs))

\* Bwrap.setenv(**kwargs): kwargs as the sequence of its (name, value) items.
RECURSIVE setenv(_, _)
setenv(w, kwargs) ==
    IF kwargs = <<>> \/ w.raised # "" THEN w
    ELSE LET var == Head(kwargs)[1]
             value == Head(kwargs)[2]
         IN  IF value.t = "none" \/ var = "LC_ALL"
             THEN setenv(w, Tail(kwargs))
             ELSE setenv(Extend(w, <<"--setenv", var, PyStr(value)>>), Tail(kwargs))

\* Bwrap.unsetenv(*vars)
RECURSIVE unsetenv(_, _)
unsetenv(w, names) ==
    IF names = <<>> \/ w.raised # "" THEN w
    ELSE unsetenv(Extend(w, <<"--unsetenv", Head(names)>>), Tail(names))

\* Bwrap.clearenv
\* A clearenv that puts its instruction first in the list: self.args.insert(0, ...).
clearenv_at_front(w) == IF w.raised # "" THEN w ELSE [w EXCEPT !.args = <<"--clearenv">> \o @]

clearenv(w) == Extend(w, <<"--clearenv">>)

\* A keepenv without the test for an unset variable: it emits str(None).
RECURSIVE keepenv_without_skip(_, _)
keepenv_without_skip(w, names) ==
    IF names = <<>> \/ w.raised # "" THEN w
    ELSE LET value == w.h.env[Head(names)]
         IN  keepenv_without_skip(
                 Extend(w, <<"--setenv", Head(names), IF value = None THEN "None" ELSE value>>),
                 Tail(names))

\* Bwrap.keepenv(*vars)
RECURSIVE keepenv(_, _)
keepenv(w, names) ==
    IF names = <<>> \/ w.raised # "" THEN w
    ELSE LET value == w.h.env[Head(names)]
         IN  IF value = None
             THEN keepenv(w, Tail(names))
             ELSE keepenv(Extend(w, <<"--setenv", Head(names), value>>), Tail(names))

\* Bwrap.unshare
unshare(w, net) ==
    LET w1 == Extend(w, <<"--unshare-all">>)
    IN  IF ~net THEN Extend(w1, <<"--share-net">>) ELSE w1

\* Bwrap.chdir
chdir(w, dest) == Extend(w, <<"--chdir", IF dest = None THEN Str(w.me.cwd) ELSE dest>>)

-----------------------------------------------------------------------------
(* The constructor *)

\* pybwrap._secomp.SECCOMP_BLOCK_TIOCSTI, the compiled filter, as an opaque blob.
SECCOMP_BLOCK_TIOCSTI == Bytes("<seccomp-bpf>")

\* The templates of constants.py, each reduced to the line its parameters fill in.
F_ETC_NSSWITCH == Text("passwd: files")
F_ETC_PASSWD(h, user, home) ==
    Text(user \o ":x:" \o IntStr(h.uid) \o ":" \o IntStr(h.gid) \o "::" \o Str(home)
         \o ":" \o SHELL(h))
F_ETC_GROUP(h, user) == Text(user \o ":x:" \o IntStr(h.gid) \o ":")
F_ETC_HOSTNAME(hostname) == Text("127.0.0.1 " \o hostname \o " " \o hostname \o ".localdomain")

\* The world in which nothing has been constructed yet.
NewWorld(h) ==
    [ me |-> [user |-> None], h |-> h, reg |-> <<>>, args |-> <<>>, pipes |-> <<>>,
      enabled |-> {}, raised |-> "", trace |-> <<>> ]

\* Bwrap.__init__ up to the four _init_ calls: the fields of the instance.
init_fields(o, h) ==
    LET user == IF o.keep_user THEN h.login ELSE o.user
        hostname == IF o.keep_hostname THEN h.hostname ELSE o.hostname
        home == Div(Path("/home"), Path(user))
        me0 == [ user |-> user, hostname |-> hostname, home |-> home,
                 host_cwd |-> Path(h.cwd), cwd |-> Path(h.cwd),
                 etc_binds |-> o.etc_binds, profile |-> o.profile,
                 xdg_runtime_dir |-> NoPath, xdg_config_home |-> NoPath,
                 xdg_cache_home |-> NoPath, xdg_data_home |-> NoPath,
                 xdg_state_home |-> NoPath ]
        w0 == [NewWorld(h) EXCEPT !.me = me0]
    IN  [w0 EXCEPT !.me.cwd = resolve_path(w0, h.cwd, TRUE, None)]

RECURSIVE ro_bind_try_each(_, _)
ro_bind_try_each(w, binds) ==
    IF binds = <<>> THEN w
    ELSE ro_bind_try_each(Extend(w, <<"--ro-bind-try", Head(binds), Head(binds)>>), Tail(binds))

\* Bwrap._init_container
init_container(w, o) ==
    LET w1 == openfd(w, SECCOMP_BLOCK_TIOCSTI)
        w2 == [w1 EXCEPT !.args =
                 << "--tmpfs", "/tmp", "--proc", "/proc", "--dev", "/dev",
                    "--dir", "/etc", "--dir", "/var", "--dir", "/run",
                    "--unsetenv", "TMUX", "--seccomp", IntStr(NextFd(w)) >>]
        binds == << "/usr", "/opt", "/sys/block", "/sys/bus", "/sys/class", "/sys/dev",
                    "/sys/devices", "/sys/module", "/var/empty", "/var/cache/man",
                    "/var/lib/alsa", "/run/systemd/resolve" >>
                 \o (IF w.me.etc_binds # <<>> THEN w.me.etc_binds ELSE <<"/etc">>)
        w3 == IF o.rootfs = None
              THEN symlink(bind(ro_bind_try_each(w2, binds), "/dev/fuse", None, [mode |-> "dev"]),
                           << <<"/usr/lib", "/lib">>, <<"/usr/lib", "/lib64">>,
                              <<"/usr/bin", "/bin">>, <<"/usr/bin", "/sbin">>,
                              <<"/run", "/var/run">> >>)
              ELSE Raise(w2, "NotImplementedError")
    IN  IF ~o.keep_child THEN Extend(w3, <<"--die-with-parent">>) ELSE w3

\* Bwrap._init_home
init_home(w, o) ==
    LET home == w.me.home
        w1 == IF w.raised # "" THEN w
              ELSE [w EXCEPT !.me.xdg_runtime_dir = Path("/run/user/" \o IntStr(w.h.uid)),
                             !.me.xdg_config_home = Div(home, Path(".config")),
                             !.me.xdg_cache_home = Div(home, Path(".cache")),
                             !.me.xdg_data_home = Div(Div(home, Path(".local")), Path("share")),
                             !.me.xdg_state_home = Div(Div(home, Path(".local")), Path("state"))]
        w2 == IF w1.me.profile # None /\ w1.me.profile # ""
              THEN Extend(w1, <<"--bind", Str(Path(w1.me.profile)), Str(home)>>)
              ELSE w1
        w3 == dir(w2, << Str(home), PStr(w1.me.xdg_runtime_dir), PStr(w1.me.xdg_cache_home),
                         PStr(w1.me.xdg_config_home), PStr(w1.me.xdg_data_home),
                         PStr(w1.me.xdg_state_home),
                         Str(Div(Div(home, Path(".local")), Path("bin"))) >>)
    IN  bind_all(w3, << P(Str(Div(HOME(w.h), Path(".config/user-dirs.dirs")))),
                        P(Str(Div(HOME(w.h), Path(".config/user-dirs.locale")))) >>,
                 <<>>)

RECURSIVE SearchPath(_, _)
SearchPath(home, ps) ==
    IF ps = <<>> THEN <<>>
    ELSE << IF is_absolute(Path(Head(ps))) THEN Head(ps) ELSE Str(Div(home, Path(Head(ps)))) >>
         \o SearchPath(home, Tail(ps))

\* An _init_environment_variables that clears the environment last, after the
\* variables are set and kept.
init_environment_variables_clearing_last(w, o) ==
    LET path == SearchPath(w.me.home, IF o.path # <<>> THEN o.path ELSE DEFAULT_PATH)
        w1 == setenv(w,
                << <<"HOME", VPath(w.me.home)>>, <<"SANDBOX", VInt(1)>>,
                   <<"PATH", VStr(JoinWith(":", path))>>, <<"LOGNAME", VStr(w.me.user)>>,
                   <<"USER", VStr(w.me.user)>>, <<"HOSTNAME", VStr(w.me.hostname)>>,
                   <<"GTK_A11Y", VStr("none")>> >>)
        w2 == keepenv(w1, << "COLORTERM", "EDITOR", "LANG", "LC_ALL", "LC_TIME", "TERM" >>)
    IN  IF o.clearenv THEN clearenv(w2) ELSE w2

\* Bwrap._init_environment_variables
init_environment_variables(w, o) ==
    LET w1 == IF o.clearenv THEN clearenv(w) ELSE w
        path == SearchPath(w.me.home, IF o.path # <<>> THEN o.path ELSE DEFAULT_PATH)
        w2 == setenv(w1,
                << <<"HOME", VPath(w.me.home)>>, <<"SANDBOX", VInt(1)>>,
                   <<"PATH", VStr(JoinWith(":", path))>>, <<"LOGNAME", VStr(w.me.user)>>,
                   <<"USER", VStr(w.me.user)>>, <<"HOSTNAME", VStr(w.me.hostname)>>,
                   <<"XDG_RUNTIME_DIR", VStr(PStr(w.me.xdg_runtime_dir))>>,
                   <<"XDG_CONFIG_HOME", VStr(PStr(w.me.xdg_config_home))>>,
                   <<"XDG_CACHE_HOME", VStr(PStr(w.me.xdg_cache_home))>>,
                   <<"XDG_DATA_HOME", VStr(PStr(w.me.xdg_data_home))>>,
                   <<"XDG_STATE_HOME", VStr(PStr(w.me.xdg_state_home))>>,
                   <<"GTK_A11Y", VStr("none")>> >>)
    IN  keepenv(w2, << "COLORTERM", "EDITOR", "LANG", "LC_ALL", "LC_TIME", "NO_AT_BRIDGE",
                       "PAGER", "SHELL", "TERM", "WINEDEBUG", "WINEFSYNC", "XDG_BACKEND",
                       "XDG_SEAT", "XDG_SESSION_CLASS", "XDG_SESSION_ID",
                       "XDG_SESSION_TYPE" >>)

\* cp = self.bind_data, over the (content, dest) pairs in order.
RECURSIVE cp_each(_, _)
cp_each(w, pairs) ==
    IF pairs = <<>> \/ w.raised # "" THEN w
    ELSE cp_each(bind_data(w, Head(pairs)[1], Head(pairs)[2], "ro", <<>>), Tail(pairs))

\* Bwrap._init_system_id
init_system_id(w, o) ==
    LET w1 == IF ~o.keep_hostname
              THEN Extend(w, <<"--unshare-uts", "--hostname", w.me.hostname>>)
              ELSE w
        passwd_f == F_ETC_PASSWD(w.h, w.me.user, w.me.home)
        group_f == F_ETC_GROUP(w.h, w.me.user)
        subuid_f == Text(w.me.user \o ":100000:65536\n")
    IN  cp_each(w1,
          << <<F_ETC_NSSWITCH, "/etc/nsswitch.conf">>,
             <<passwd_f, "/etc/passwd">>, <<passwd_f, "/etc/passwd.OLD">>,
             <<passwd_f, "/etc/passwd-">>,
             <<group_f, "/etc/group">>, <<group_f, "/etc/group-">>,
             <<F_ETC_HOSTNAME(w.me.hostname), "/etc/hosts">>,
             <<Text(w.me.hostname \o "\n"), "/etc/hostname">>,
             <<subuid_f, "/etc/subuid">>, <<subuid_f, "/etc/subuid-">>,
             <<subuid_f, "/etc/subgid">>, <<subuid_f, "/etc/subgid-">>,
             <<Bytes(""), "/etc/fstab">> >>)

\* A constructor that initializes the system identity first, before the container.
Constructed_identity_first(o, h) ==
    init_environment_variables(
        init_home(init_container(init_system_id(init_fields(o, h), o), o), o), o)

\* Bwrap.__init__ and BwrapSandbox.__init__: the world after the constructor, with
\* raised set if it did not return.
Constructed(o, h) ==
    init_system_id(
        init_environment_variables(
            init_home(init_container(init_fields(o, h), o), o), o), o)

-----------------------------------------------------------------------------
(* BwrapSandbox: the feature decorator and the built-in features *)

\* The features of BwrapSandbox with the depends tuple each is declared with.
BuiltinFeatures ==
    [ dbus |-> [depends |-> <<>>, body |-> <<>>],
      x11 |-> [depends |-> <<"gpu">>, body |-> <<>>],
      wayland |-> [depends |-> <<"gpu">>, body |-> <<>>],
      audio |-> [depends |-> <<>>, body |-> <<>>],
      gpu |-> [depends |-> <<>>, body |-> <<>>],
      nvidia |-> [depends |-> <<"gpu">>, body |-> <<>>],
      desktop |-> [depends |-> <<>>, body |-> <<>>],
      mangohud |-> [depends |-> <<"gpu", "wayland", "x11">>, body |-> <<>>],
      locale |-> [depends |-> <<>>, body |-> <<>>] ]

BuiltinNames == DOMAIN BuiltinFeatures

\* What the wrapper does, in order: "add" f to _enabled_features, "skip" a feature
\* already there, log "enabled" when the dependencies are done and the body starts.
Trace(w, event, f) == IF w.raised # "" THEN w ELSE [w EXCEPT !.trace = Append(@, <<event, f>>)]

\* glob(pattern) on the host, the files in the order the host lists them.
glob(w, name) == w.h.glob[name]

dbus(w) ==
    keepenv(bind_all(w, << P("/run/dbus"), P(Str(Div(XDG_RUNTIME_DIR(w.h), Path("bus")))) >>,
                     [mode |-> "rw"]),
            <<"DBUS_SESSION_BUS_ADDRESS">>)

x11(w) ==
    keepenv(bind_all(w, << P("/tmp/.X11-unix"), P("/tmp/.ICE-unix"),
                           P(Str(Div(w.me.home, Path(".Xauthority")))) >>
                        \o Paths(glob(w, "ICE")),
                     [mode |-> "rw"]),
            <<"DISPLAY", "XAUTHORITY">>)

wayland(w) ==
    keepenv(setenv(bind_all(w, Paths(glob(w, "wayland")), [mode |-> "rw"]),
                   << <<"QT_QPA_PLATFORM", VStr("wayland:xcb")>>,
                      <<"MOZ_ENABLE_WAYLAND", VInt(1)>>,
                      <<"GDK_BACKEND", VStr("wayland")>>,
                      <<"_JAVA_AWT_WM_NONREPARENTING", VInt(1)>> >>),
            <<"WAYLAND_DISPLAY">>)

audio(w) ==
    bind_all(w, Paths(glob(w, "pulse")) \o Paths(glob(w, "pipewire"))
                \o <<D([src |-> "/dev/snd", mode |-> "dev"])>>,
             [mode |-> "rw"])

\* The four shader cache directories gpu binds when shader_cache is true.
ShaderCaches(h) ==
    << Str(Div(XDG_CACHE_HOME(h), Path("mesa_shader_cache"))),
       Str(Div(XDG_CACHE_HOME(h), Path("radv_builtin_shaders64"))),
       Str(Div(XDG_CACHE_HOME(h), Path("nv"))),
       Str(Div(XDG_CACHE_HOME(h), Path("nvidia"))) >>

gpu(w, shader_cache) ==
    LET w1 == keepenv(bind_all(w, <<P("/dev/dri")>> \o Paths(glob(w, "nvidia")),
                               [mode |-> "dev"]),
                      <<"__GL_THREADED_OPTIMIZATION">>)
    IN  IF shader_cache THEN bind_all(w1, Paths(ShaderCaches(w.h)), [mode |-> "rw"]) ELSE w1

nvidia(w) ==
    IF ~w.h.nvidiactl THEN Raise(w, "RuntimeError")
    ELSE setenv(w, << <<"__NV_PRIME_RENDER_OFFLOAD", VStr("1")>>,
                      <<"__GLX_VENDOR_LIBRARY_NAME", VStr("nvidia")>>,
                      <<"__VK_LAYER_NV_optimus", VStr("NVIDIA_only")>>,
                      <<"VK_DRIVER_FILES", VStr("/usr/share/vulkan/icd.d/nvidia_icd.json")>> >>)

mangohud(w, enable) ==
    LET w1 == bind(w, Str(Div(HOME(w.h), Path(".config/MangoHud"))), None, <<>>)
    IN  IF enable THEN setenv(w1, << <<"MANGOHUD", VInt(1)>> >>) ELSE w1

locale(w, newlocale) ==
    bind_data(setenv(w, << <<"LANG", VStr(newlocale)>>, <<"LC_ALL", VStr(newlocale)>> >>),
              Text("LANG=" \o newlocale \o "\nLC_TIME=" \o newlocale),
              "/etc/locale.conf", "ro", <<>>)

\* A wrapper without the membership test: every call activates again.
already_enabled_never(w, f) == FALSE

\* `if func in self._enabled_features`
already_enabled(w, f) == f \in w.enabled

RECURSIVE wrapper(_, _, _)
RECURSIVE func(_, _, _)
RECURSIVE call_depends(_, _)

\* A wrapper that runs the method before the dependencies.
wrapper_body_first(w, f, kw) ==
    IF w.raised # "" THEN w
    ELSE IF already_enabled(w, f) THEN Trace(w, "skip", f)
    ELSE LET w1 == Trace([w EXCEPT !.enabled = @ \cup {f}], "add", f)
             w2 == func(Trace(w1, "enabled", f), f, kw)
         IN  call_depends(w2, w.reg[f].depends)

\* A wrapper that skips an enabled feature only when it is called without arguments.
wrapper_rerun_with_arguments(w, f, kw) ==
    IF w.raised # "" THEN w
    ELSE IF already_enabled(w, f) /\ DOMAIN kw = {} THEN Trace(w, "skip", f)
    ELSE LET w1 == Trace([w EXCEPT !.enabled = @ \cup {f}], "add", f)
             w2 == call_depends(w1, w.reg[f].depends)
         IN  func(Trace(w2, "enabled", f), f, kw)

\* `for dep in depends: getattr(self, dep)()`: each dependency with no arguments.
\* A loop over the dependencies that takes them last to first.
call_depends_reversed(w, depends) ==
    IF depends = <<>> \/ w.raised # "" THEN w
    ELSE LET n == Len(depends)
         IN  IF depends[n] \notin DOMAIN w.reg THEN Raise(w, "AttributeError")
             ELSE call_depends(wrapper(w, depends[n], <<>>), SubSeq(depends, 1, n - 1))

call_depends(w, depends) ==
    IF depends = <<>> \/ w.raised # "" THEN w
    ELSE IF Head(depends) \notin DOMAIN w.reg THEN Raise(w, "AttributeError")
    ELSE call_depends(wrapper(w, Head(depends), <<>>), Tail(depends))

\* The decorated method func(self, **kw) of feature f; a feature that is not built in
\* extends the list by the tokens of its body.
func(w, f, kw) ==
    IF w.raised # "" THEN w
    ELSE CASE f = "dbus" -> dbus(w)
           [] f = "x11" -> x11(w)
           [] f = "wayland" -> wayland(w)
           [] f = "audio" -> audio(w)
           [] f = "gpu" -> gpu(w, Get(kw, "shader_cache", TRUE))
           [] f = "nvidia" -> nvidia(w)
           [] f = "desktop" ->
                wrapper(wrapper(wrapper(w, "wayland", <<>>), "x11", <<>>), "audio", <<>>)
           [] f = "mangohud" -> mangohud(w, Get(kw, "enable", TRUE))
           [] f = "locale" ->
                IF "newlocale" \in DOMAIN kw THEN locale(w, kw.newlocale)
                ELSE Raise(w, "TypeError")
           [] OTHER -> Extend(w, w.reg[f].body)

\* BwrapSandbox.feature(depends)(func): the wrapper that replaces the method.
wrapper(w, f, kw) ==
    IF w.raised # "" THEN w
    ELSE IF already_enabled(w, f) THEN Trace(w, "skip", f)
    ELSE LET w1 == Trace([w EXCEPT !.enabled = @ \cup {f}], "add", f)
             w2 == call_depends(w1, w.reg[f].depends)
         IN  func(Trace(w2, "enabled", f), f, kw)

-----------------------------------------------------------------------------
(* cli.py: the ad-hoc bind requests of the command line *)

BINDMODE_MAP == [r |-> "ro", w |-> "rw", d |-> "dev"]

\* str.split(sep), from position i on, cur being the piece read so far.
RECURSIVE SplitOn(_, _, _, _)
SplitOn(s, sep, i, cur) ==
    IF i > Len(s) THEN <<cur>>
    ELSE IF Slice(s, i, i) = sep THEN <<cur>> \o SplitOn(s, sep, i + 1, "")
    ELSE SplitOn(s, sep, i + 1, cur \o Slice(s, i, i))

\* bind_spec.match(s) for ^(?P<src>[^:]+)(?::(?P<dest>[^:]*))?(?::(?P<mode>[rwd]))?$ :
\* the groups (None for a group that took no part), ok false when there is no match.
bind_spec_match(s) ==
    LET parts == SplitOn(s, ":", 1, "")
        n == Len(parts)
        no == [ok |-> FALSE, src |-> None, dest |-> None, mode |-> None]
    IN  IF parts[1] = "" THEN no
        ELSE IF n = 1 THEN [ok |-> TRUE, src |-> parts[1], dest |-> None, mode |-> None]
        ELSE IF n = 2 THEN [ok |-> TRUE, src |-> parts[1], dest |-> parts[2], mode |-> None]
        ELSE IF n = 3 /\ parts[3] \in DOMAIN BINDMODE_MAP
        THEN [ok |-> TRUE, src |-> parts[1], dest |-> parts[2], mode |-> parts[3]]
        ELSE no

\* sandbox.bind(*positional): bind takes src and dest by position, the options by
\* keyword only; a third positional argument is a TypeError of the call.
bind_positional(w, positional) ==
    IF Len(positional) > 2 THEN Raise(w, "TypeError")
    ELSE bind(w, positional[1], IF Len(positional) = 2 THEN positional[2] ELSE None, <<>>)

\* handle_binds(binds, sandbox.bind)
RECURSIVE handle_binds(_, _)
handle_binds(w, binds) ==
    IF binds = <<>> \/ w.raised # "" THEN w
    ELSE LET m == bind_spec_match(Head(binds))
         IN  IF ~m.ok THEN Raise(w, "AttributeError")
             ELSE LET src == Path(m.src)
                      dest == IF m.dest = None \/ m.dest = "" THEN src ELSE Path(m.dest)
                      mode == BINDMODE_MAP[IF m.mode = None THEN "r" ELSE m.mode]
                  IN  handle_binds(bind_positional(w, <<Str(src), Str(dest), mode>>),
                                   Tail(binds))

-----------------------------------------------------------------------------
(* Bounds and the inputs the calls are made with *)

\* The number of calls made on one instance when every method may be called.
MaxCalls == 1
\* The number of bind and bind_all calls made on one instance.
MaxBindCalls == 1
\* The number of environment calls made on one instance.
MaxEnvCalls == 3
\* The number of feature calls made on one instance.
MaxFeatureCalls == 3
MaxBuildCalls == 2
MaxCwdCalls == 1
MaxEnvFeatureCalls == 2

\* The paths resolve_path is given on host h: the home directory, paths under it, a
\* sibling whose name extends the home directory's, paths elsewhere, relative paths.
ResolveInputs(h) ==
    << h.HOME, h.HOME \o "/docs", h.HOME \o "/a/b", h.HOME \o "/", h.HOME \o "//docs/.",
       h.HOME \o "/../other", h.HOME \o "x", h.HOME \o "x/docs", "/" \o h.HOME,
       "/", "/data", "/home", "/usr/lib/", "docs", "a/b", ".", "", "../up", None >>

AnchorInputs(h) == << None, "", "/data", h.HOME, "rel" >>

\* The sources, destinations and keyword arguments bind is called with on host h.
BindSrcInputs(h) == << "/data", h.HOME \o "/docs", h.HOME, h.HOME \o "x", "docs", None >>
BindDestInputs(h) == << None, "", "/mnt", h.HOME \o "/there", "sub" >>
BindKwInputs(h) ==
    << <<>>, [mode |-> "rw"], [mode |-> "dev", asis |-> TRUE], [asis |-> TRUE],
       [src_anchor |-> h.HOME, dest_anchor |-> "/home/user"],
       [src_anchor |-> "/data", dest_anchor |-> "/data", mode |-> "rw"] >>

\* The argument lists bind_all is called with: entries and shared keyword arguments.
BindAllInputs(h) ==
    << [binds |-> << P(".cache"), D([src |-> "bbbb", mode |-> "rw"]) >>,
        kw |-> [src_anchor |-> h.HOME, dest_anchor |-> "/home/user"]],
       [binds |-> << D([src |-> ".cache", dest |-> "host_cache"]), P(".local/low"),
                     D([src |-> "bbbb", mode |-> "rw"]) >>,
        kw |-> [src_anchor |-> h.HOME, dest_anchor |-> "/home/testuser"]],
       [binds |-> << P("/data"), P("/data"), P(h.HOME \o "/docs"), P("/data") >>,
        kw |-> [mode |-> "rw"]],
       [binds |-> << D([src |-> "/opt/x", dest |-> h.HOME \o "/x", asis |-> TRUE]),
                     D([src |-> "/opt/x", dest |-> h.HOME \o "/x", mode |-> "rw"]),
                     P(h.HOME \o "/x") >>,
        kw |-> [mode |-> "dev"]],
       [binds |-> << D([src |-> "a", src_anchor |-> "/srv", dest_anchor |-> "/mnt"]),
                     P("a") >>,
        kw |-> [src_anchor |-> "/data", asis |-> TRUE]],
       [binds |-> <<>>, kw |-> <<>>],
       [binds |-> << P("/data"), D([dest |-> "/mnt"]), P("/later") >>, kw |-> <<>>] >>

\* The argument lists setenv, keepenv and unsetenv are called with.
SetenvInputs ==
    << << <<"X", VInt(1)>> >>,
       << <<"A", VStr("a")>>, <<"B", VNone>>, <<"C", VInt(10)>> >>,
       << <<"LC_ALL", VStr("C")>>, <<"LANG", VStr("C")>> >>,
       << <<"P", VPath(Path("/opt//p/"))>>, <<"X", VInt(0)>> >>,
       <<>> >>
KeepenvInputs == << <<"Y">>, <<"Z", "Y">>, <<"TERM", "EDITOR", "LANG">>, <<"LC_ALL">>, <<>> >>
UnsetenvInputs == << <<"VAR1", "VAR2">>, <<"X">>, <<>> >>

\* The feature calls: every built-in feature, the parameterised ones with each value.
FeatureInputs ==
    << [f |-> "dbus", kw |-> <<>>], [f |-> "x11", kw |-> <<>>], [f |-> "wayland", kw |-> <<>>],
       [f |-> "audio", kw |-> <<>>], [f |-> "gpu", kw |-> <<>>],
       [f |-> "gpu", kw |-> [shader_cache |-> FALSE]],
       [f |-> "gpu", kw |-> [shader_cache |-> TRUE]],
       [f |-> "nvidia", kw |-> <<>>], [f |-> "desktop", kw |-> <<>>],
       [f |-> "mangohud", kw |-> <<>>], [f |-> "mangohud", kw |-> [enable |-> FALSE]],
       [f |-> "locale", kw |-> [newlocale |-> "C"]] >>

\* The pairs symlink is called with.
SymlinkInputs(h) ==
    << << <<"/usr/lib", "/lib">>, <<"/usr/bin", "/bin">> >>,
       << <<h.HOME \o "/.local/opt", h.HOME \o "/opt">> >>,
       << <<"/run", "var/run">> >> >>

DirInputs(h) == << <<"/data", "sub">>, <<h.HOME \o "/d">> >>
TmpfsInputs(h) == << <<"/tmp/x">>, <<h.HOME \o "/.cache", "scratch">> >>
ChdirInputs == << None, "/work" >>

\* The arguments of file: content, dest and the keyword arguments.
FileInputs(h) ==
    << [content |-> Text("hello"), dest |-> "/etc/motd", kw |-> <<>>],
       [content |-> Bytes("\\x00\\xff"), dest |-> h.HOME \o "/.secret", kw |-> [perms |-> "0600"]],
       [content |-> Text("t"), dest |-> h.HOME \o "/f", kw |-> [asis |-> TRUE]],
       [content |-> Text(""), dest |-> "conf", kw |-> [anchor |-> "/etc", perms |-> ""]] >>

\* The arguments of bind_data: content, dest, mode and the keyword arguments.
BindDataInputs(h) ==
    << [content |-> Text("test content"), dest |-> "/etc/testfile.conf", mode |-> "ro",
        kw |-> <<>>],
       [content |-> Text("test content"), dest |-> h.HOME \o "/testfile.conf", mode |-> "rw",
        kw |-> [perms |-> "0775"]],
       [content |-> Bytes("raw"), dest |-> h.HOME \o "/raw", mode |-> "ro",
        kw |-> [asis |-> TRUE]],
       [content |-> Text("d"), dest |-> "/dev/x", mode |-> "dev", kw |-> [perms |-> "0444"]] >>

\* The --bind requests of the command line.
HandleBindsInputs ==
    << <<"/data">>, <<"/data:/mnt:w", "/srv::d">>, <<"/data:/mnt", "/opt/x:r">>,
       <<"a:b:c">> >>

\* The directories the process moves to after the instance was constructed.
CwdInputs(h) == << "/tmp", h.HOME \o "/elsewhere", "/srv/data" >>

-----------------------------------------------------------------------------
(* The actions: one per method of the instance a caller may call *)

\* The state of the instance and the host as the world a call starts in.
World ==
    [ me |-> self, h |-> host, reg |-> registry, args |-> args, pipes |-> pipes,
      enabled |-> enabled, raised |-> "", trace |-> <<>> ]

\* The call op(arg) ends in world w (returning result, if it returns one).
Returns(op, arg, w, result) ==
    \E w1 \in {w} :
        /\ args' = w1.args
        /\ pipes' = w1.pipes
        /\ enabled' = w1.enabled
        /\ raised' = w1.raised
        /\ last' = [ op |-> op, arg |-> arg, base |-> Len(args), was |-> enabled,
                     trace |-> w1.trace, result |-> result, done |-> TRUE ]
        /\ UNCHANGED <<opts, host, phase, self, registry>>

\* A call that changes the instance counts against the bound on calls.
Counted(op, arg, bound) ==
    /\ phase = "ready"
    /\ Len(calls) < bound
    /\ calls' = Append(calls, [op |-> op, arg |-> arg])

\* BwrapSandbox(**opts)
Construct ==
    /\ phase = "new"
    /\ \E w1 \in {Constructed(opts, host)} :
           /\ phase' = IF w1.raised = "" THEN "ready" ELSE "failed"
           /\ self' = w1.me
           /\ args' = w1.args
           /\ pipes' = w1.pipes
           /\ enabled' = {}
           /\ raised' = w1.raised
           /\ last' = [ op |-> "__init__", arg |-> opts, base |-> 0, was |-> {},
                        trace |-> <<>>, result |-> None, done |-> TRUE ]
    /\ UNCHANGED <<opts, host, calls, registry>>

\* self.resolve_path(path, translate, anchor): reads the instance, changes nothing.
\* The function is pure, so a run applies it once, to any of the inputs.
ResolvePath(path, translate, anchor) ==
    /\ phase = "ready"
    /\ last.op # "resolve_path"
    /\ \E w0 \in {World} :
           Returns("resolve_path",
                   [path |-> path, translate |-> translate, anchor |-> anchor],
                   w0, resolve_path(w0, path, translate, anchor))
    /\ UNCHANGED calls

Bind(src, dest, kw, bound) ==
    /\ Counted("bind", [src |-> src, dest |-> dest, kw |-> kw], bound)
    /\ \E w0 \in {World} :
           Returns("bind", [src |-> src, dest |-> dest, kw |-> kw],
                   bind(w0, src, dest, kw), None)

BindAll(in, bound) ==
    /\ Counted("bind_all", in, bound)
    /\ \E w0 \in {World} : Returns("bind_all", in, bind_all(w0, in.binds, in.kw), None)

Setenv(kwargs, bound) ==
    /\ Counted("setenv", kwargs, bound)
    /\ \E w0 \in {World} : Returns("setenv", kwargs, setenv(w0, kwargs), None)

Unsetenv(names, bound) ==
    /\ Counted("unsetenv", names, bound)
    /\ \E w0 \in {World} : Returns("unsetenv", names, unsetenv(w0, names), None)

Clearenv(bound) ==
    /\ Counted("clearenv", <<>>, bound)
    /\ \E w0 \in {World} : Returns("clearenv", <<>>, clearenv(w0), None)

Keepenv(names, bound) ==
    /\ Counted("keepenv", names, bound)
    /\ \E w0 \in {World} : Returns("keepenv", names, keepenv(w0, names), None)

\* self.<f>(**kw) for a feature f of the registry.
Feature(call, bound) ==
    /\ Counted("feature", call, bound)
    /\ \E w0 \in {World} : Returns("feature", call, wrapper(w0, call.f, call.kw), None)

Symlink(pairs, bound) ==
    /\ Counted("symlink", pairs, bound)
    /\ \E w0 \in {World} : Returns("symlink", pairs, symlink(w0, pairs), None)

Dir(dirs, bound) ==
    /\ Counted("dir", dirs, bound)
    /\ \E w0 \in {World} : Returns("dir", dirs, dir(w0, dirs), None)

Tmpfs(paths, bound) ==
    /\ Counted("tmpfs", paths, bound)
    /\ \E w0 \in {World} : Returns("tmpfs", paths, tmpfs(w0, paths), None)

File(in, bound) ==
    /\ Counted("file", in, bound)
    /\ \E w0 \in {World} : Returns("file", in, file(w0, in.content, in.dest, in.kw), None)

BindData(in, bound) ==
    /\ Counted("bind_data", in, bound)
    /\ \E w0 \in {World} :
           Returns("bind_data", in, bind_data(w0, in.content, in.dest, in.mode, in.kw), None)

Unshare(net, bound) ==
    /\ Counted("unshare", net, bound)
    /\ \E w0 \in {World} : Returns("unshare", net, unshare(w0, net), None)

Chdir(dest, bound) ==
    /\ Counted("chdir", dest, bound)
    /\ \E w0 \in {World} : Returns("chdir", dest, chdir(w0, dest), None)

\* handle_binds(args.bind, sandbox.bind), as main calls it.
HandleBinds(binds, bound) ==
    /\ Counted("handle_binds", binds, bound)
    /\ \E w0 \in {World} : Returns("handle_binds", binds, handle_binds(w0, binds), None)

\* The process changes its working directory (os.chdir by the caller): Path.cwd()
\* gives d from now on; the instance is not touched.
HostChdir(d) ==
    /\ phase = "ready"
    /\ host.cwd # d
    /\ host' = [host EXCEPT !.cwd = d]
    /\ UNCHANGED <<opts, phase, self, args, pipes, enabled, raised, last, calls, registry>>

-----------------------------------------------------------------------------
(* Specifications *)

\* Before the constructor: the caller's options, the host, nothing built.
InitNew(os, hs, reg) ==
    /\ opts \in os
    /\ host \in hs
    /\ registry = reg
    /\ phase = "new"
    /\ self = NewWorld(host).me
    /\ args = <<>>
    /\ pipes = <<>>
    /\ enabled = {}
    /\ raised = ""
    /\ last = [ op |-> "", arg |-> <<>>, base |-> 0, was |-> {}, trace |-> <<>>,
                result |-> None, done |-> TRUE ]
    /\ calls = <<>>

\* After a constructor that returned.
InitReady(os, hs, reg) ==
    /\ opts \in os
    /\ host \in hs
    /\ registry = reg
    /\ \E w1 \in {Constructed(opts, host)} :
           /\ w1.raised = ""
           /\ phase = "ready"
           /\ self = w1.me
           /\ args = w1.args
           /\ pipes = w1.pipes
           /\ enabled = {}
           /\ raised = ""
           /\ last = [ op |-> "__init__", arg |-> opts, base |-> 0, was |-> {},
                       trace |-> <<>>, result |-> None, done |-> TRUE ]
    /\ calls = <<>>

\* resolve_path on every instance that was constructed, with every input.
InitResolve == InitReady(OptionSets, Hosts, BuiltinFeatures)
NextResolve ==
    \E i \in 1..Len(ResolveInputs(host)), translate \in BOOLEAN,
       a \in 1..Len(AnchorInputs(host)) :
        ResolvePath(ResolveInputs(host)[i], translate, AnchorInputs(host)[a])
SpecResolve == InitResolve /\ [][NextResolve]_vars

\* bind and bind_all on an instance built with the default options.
InitBind == InitReady({DEFAULT_OPTIONS}, Hosts, BuiltinFeatures)
NextBind ==
    \/ \E i \in 1..Len(BindSrcInputs(host)), j \in 1..Len(BindDestInputs(host)),
          k \in 1..Len(BindKwInputs(host)) :
           Bind(BindSrcInputs(host)[i], BindDestInputs(host)[j], BindKwInputs(host)[k],
                MaxBindCalls)
    \/ \E i \in 1..Len(BindAllInputs(host)) : BindAll(BindAllInputs(host)[i], MaxBindCalls)
SpecBind == InitBind /\ [][NextBind]_vars

\* The environment calls, on instances built with and without clearenv.
EnvOptionSets == {DEFAULT_OPTIONS, [DEFAULT_OPTIONS EXCEPT !.clearenv = FALSE]}
InitEnv == InitReady(EnvOptionSets, Hosts, BuiltinFeatures)
NextEnv ==
    \/ Clearenv(MaxEnvCalls)
    \/ \E i \in 1..Len(SetenvInputs) : Setenv(SetenvInputs[i], MaxEnvCalls)
    \/ \E i \in 1..Len(KeepenvInputs) : Keepenv(KeepenvInputs[i], MaxEnvCalls)
    \/ \E i \in 1..Len(UnsetenvInputs) : Unsetenv(UnsetenvInputs[i], MaxEnvCalls)
SpecEnv == InitEnv /\ [][NextEnv]_vars

\* The feature calls on an instance built with the default options.
InitFeature == InitReady({DEFAULT_OPTIONS}, Hosts, BuiltinFeatures)
NextFeature == \E i \in 1..Len(FeatureInputs) : Feature(FeatureInputs[i], MaxFeatureCalls)
SpecFeature == InitFeature /\ [][NextFeature]_vars

\* A subclass of BwrapSandbox declaring features with @BwrapSandbox.feature(depends=...):
\* ping and pong depend on each other, selfish on itself, leaf on gpu; each method
\* sets one variable.
SubclassFeatures ==
    [ ping |-> [depends |-> <<"pong">>, body |-> <<"--setenv", "PING", "1">>],
      pong |-> [depends |-> <<"ping">>, body |-> <<"--setenv", "PONG", "1">>],
      selfish |-> [depends |-> <<"selfish">>, body |-> <<"--setenv", "SELFISH", "1">>],
      leaf |-> [depends |-> <<"gpu">>, body |-> <<"--setenv", "LEAF", "1">>] ]

SubclassInputs ==
    << [f |-> "ping", kw |-> <<>>], [f |-> "pong", kw |-> <<>>],
       [f |-> "selfish", kw |-> <<>>], [f |-> "leaf", kw |-> <<>>],
       [f |-> "gpu", kw |-> <<>>], [f |-> "x11", kw |-> <<>>] >>

InitCycle == InitReady({DEFAULT_OPTIONS}, Hosts, SubclassFeatures @@ BuiltinFeatures)
NextCycle == \E i \in 1..Len(SubclassInputs) : Feature(SubclassInputs[i], MaxFeatureCalls)
SpecCycle == InitCycle /\ [][NextCycle]_vars

\* The whole life of an instance: the constructor, then any method.
\* The builder calls, with a few environment and feature calls among them.
InitBuild == InitReady({DEFAULT_OPTIONS}, Hosts, BuiltinFeatures)
NextBuild ==
    \/ \E i \in 1..Len(SymlinkInputs(host)) : Symlink(SymlinkInputs(host)[i], MaxBuildCalls)
    \/ \E i \in 1..Len(DirInputs(host)) : Dir(DirInputs(host)[i], MaxBuildCalls)
    \/ \E i \in 1..Len(TmpfsInputs(host)) : Tmpfs(TmpfsInputs(host)[i], MaxBuildCalls)
    \/ \E i \in 1..Len(FileInputs(host)) : File(FileInputs(host)[i], MaxBuildCalls)
    \/ \E i \in 1..Len(BindDataInputs(host)) : BindData(BindDataInputs(host)[i], MaxBuildCalls)
    \/ \E net \in BOOLEAN : Unshare(net, MaxBuildCalls)
    \/ \E i \in 1..Len(ChdirInputs) : Chdir(ChdirInputs[i], MaxBuildCalls)
    \/ \E i \in 1..Len(HandleBindsInputs) : HandleBinds(HandleBindsInputs[i], MaxBuildCalls)
    \/ \E i \in {2, 6} : Bind(BindSrcInputs(host)[i], BindDestInputs(host)[1], <<>>, MaxBuildCalls)
    \/ BindAll(BindAllInputs(host)[1], MaxBuildCalls)
    \/ Clearenv(MaxBuildCalls)
    \/ Setenv(SetenvInputs[2], MaxBuildCalls)
    \/ Keepenv(KeepenvInputs[2], MaxBuildCalls)
    \/ Unsetenv(UnsetenvInputs[1], MaxBuildCalls)
    \/ \E i \in {8, 10, 12} : Feature(FeatureInputs[i], MaxBuildCalls)
SpecBuild == InitBuild /\ [][NextBuild]_vars

\* Relative paths, resolved and bound while the process moves between directories.
InitCwd == InitReady({DEFAULT_OPTIONS}, Hosts, BuiltinFeatures)
NextCwd ==
    \/ \E i \in 1..Len(CwdInputs(host)) : HostChdir(CwdInputs(host)[i])
    \/ \E i \in 14..18, translate \in BOOLEAN, a \in {1, 3, 4} :
           ResolvePath(ResolveInputs(host)[i], translate, AnchorInputs(host)[a])
    \/ \E i \in {1, 5}, j \in {1, 3, 5}, k \in {1, 4, 5} :
           Bind(BindSrcInputs(host)[i], BindDestInputs(host)[j], BindKwInputs(host)[k],
                MaxCwdCalls)
SpecCwd == InitCwd /\ [][NextCwd]_vars

\* setenv, keepenv and the features, on instances built with and without clearenv.
InitEnvFeature == InitReady(EnvOptionSets, Hosts, BuiltinFeatures)
NextEnvFeature ==
    \/ \E i \in 1..Len(SetenvInputs) : Setenv(SetenvInputs[i], MaxEnvFeatureCalls)
    \/ \E i \in 1..Len(KeepenvInputs) : Keepenv(KeepenvInputs[i], MaxEnvFeatureCalls)
    \/ \E i \in 1..Len(FeatureInputs) : Feature(FeatureInputs[i], MaxEnvFeatureCalls)
SpecEnvFeature == InitEnvFeature /\ [][NextEnvFeature]_vars

\* The constructor, with the options of OptionSets and with etc_binds naming files
\* below /etc, and the pure resolve_path on the instance it leaves.
ConstructOptionSets ==
    OptionSets \cup
        { [DEFAULT_OPTIONS EXCEPT !.etc_binds = <<"/etc/passwd", "/etc/resolv.conf">>,
                                  !.keep_user = TRUE] }
InitConstruct == InitNew(ConstructOptionSets, Hosts, BuiltinFeatures)
NextConstruct ==
    \/ Construct
    \/ \E i \in 1..Len(ResolveInputs(host)), translate \in BOOLEAN :
           ResolvePath(ResolveInputs(host)[i], translate, None)
SpecConstruct == InitConstruct /\ [][NextConstruct]_vars

Init == InitNew(OptionSets, Hosts, BuiltinFeatures)
Next ==
    \/ Construct
    \/ \E i \in 1..Len(ResolveInputs(host)) : ResolvePath(ResolveInputs(host)[i], TRUE, None)
    \/ \E i \in 1..Len(BindSrcInputs(host)), j \in 1..Len(BindDestInputs(host)),
          k \in 1..Len(BindKwInputs(host)) :
           Bind(BindSrcInputs(host)[i], BindDestInputs(host)[j], BindKwInputs(host)[k],
                MaxCalls)
    \/ \E i \in 1..Len(BindAllInputs(host)) : BindAll(BindAllInputs(host)[i], MaxCalls)
    \/ Clearenv(MaxCalls)
    \/ \E i \in 1..Len(SetenvInputs) : Setenv(SetenvInputs[i], MaxCalls)
    \/ \E i \in 1..Len(KeepenvInputs) : Keepenv(KeepenvInputs[i], MaxCalls)
    \/ \E i \in 1..Len(UnsetenvInputs) : Unsetenv(UnsetenvInputs[i], MaxCalls)
    \/ \E i \in 1..Len(FeatureInputs) : Feature(FeatureInputs[i], MaxCalls)
Spec == Init /\ [][Next]_vars

-----------------------------------------------------------------------------
(* Path translation: C1, C2 *)

\* The path string the caller gave, as pathlib prints it.
Norm(path) == Str(Path(path))

IsAbsoluteStr(path) == path # None /\ Slice(path, 1, 1) = "/"

\* Whether the path string s names the directory d or something below it.
AtOrUnder(s, d) == s = d \/ (Len(s) > Len(d) /\ Slice(s, 1, Len(d) + 1) = d \o "/")

ResolvedWithTranslate ==
    last.op = "resolve_path" /\ last.arg.translate /\ IsAbsoluteStr(last.arg.path)

\* C1: an absolute path equal to or under the host home directory resolves, with
\* translate true, to the sandbox home followed by the part below the host home; the
\* host home itself resolves to exactly the sandbox home.
C1_UnderHomeTranslated ==
    (ResolvedWithTranslate /\ AtOrUnder(Norm(last.arg.path), host.HOME))
        => /\ PStr(last.result)
                = Str(self.home) \o Slice(Norm(last.arg.path), Len(host.HOME) + 1,
                                          Len(Norm(last.arg.path)))
           /\ (Norm(last.arg.path) = host.HOME => last.result = self.home)

\* The host home and a path two levels below it have been resolved into a sandbox home
\* that differs from the host home.
C1_Witness ==
    /\ ResolvedWithTranslate
    /\ last.arg.path = host.HOME \o "/a/b"
    /\ self.home # HOME(host)
    /\ PStr(last.result) = Str(self.home) \o "/a/b"

\* C2: an absolute path that is not under the host home directory, a sibling whose
\* name only extends the home directory's name included, resolves to itself.
C2_OutsideHomeUnchanged ==
    (ResolvedWithTranslate /\ ~AtOrUnder(Norm(last.arg.path), host.HOME))
        => /\ last.result = Path(last.arg.path)
           /\ PStr(last.result) = Norm(last.arg.path)

\* The sibling hostHome + "x" has been resolved and came back unchanged.
C2_Witness ==
    /\ ResolvedWithTranslate
    /\ last.arg.path = host.HOME \o "x/docs"
    /\ self.home # HOME(host)
    /\ PStr(last.result) = host.HOME \o "x/docs"

-----------------------------------------------------------------------------
(* bind and bind_all: C3, C4 *)

\* The tokens the last call appended.
Appended == SubSeq(args, last.base + 1, Len(args))

\* The absolute path string a path argument stands for: itself, or the anchor (the
\* working directory captured by the constructor when there is none) joined with it.
Absolute(path, anchor) ==
    IF IsAbsoluteStr(path) THEN Norm(path)
    ELSE Norm((IF anchor = None \/ anchor = "" THEN Str(self.host_cwd) ELSE anchor)
              \o "/" \o path)

\* The sandbox-side name of an absolute path string: below the host home it moves
\* below the sandbox home, elsewhere it keeps its name.
InSandbox(s) ==
    IF AtOrUnder(s, host.HOME) THEN Str(self.home) \o Slice(s, Len(host.HOME) + 1, Len(s))
    ELSE s

Directive(mode) ==
    CASE mode = "rw" -> "--bind-try" [] mode = "ro" -> "--ro-bind-try"
      [] mode = "dev" -> "--dev-bind-try"

\* The one instruction a bind of src to dest (None: omitted) with these options is to
\* append.
Instruction(src, dest, mode, asis, src_anchor, dest_anchor) ==
    LET d == Absolute(IF dest = None \/ dest = "" THEN src ELSE dest, dest_anchor)
    IN  << Directive(mode), Absolute(src, src_anchor), IF asis THEN d ELSE InSandbox(d) >>

BindReturned == last.op = "bind" /\ raised = ""

\* C3: bind appends one instruction whose source is the host path as given, not
\* translated even under the host home, and whose destination is dest, or src when
\* dest is omitted, translated into the sandbox unless asis: an omitted dest gives a
\* source outside the home an identical destination and hostHome/x the destination
\* sandboxHome/x.
C3_BindSourceHostDestSandbox ==
    BindReturned =>
        LET a == last.arg
            mode == Get(a.kw, "mode", "ro")
            asis == Get(a.kw, "asis", FALSE)
            omitted == a.dest = None
        IN  /\ Appended = Instruction(a.src, a.dest, mode, asis,
                                      Get(a.kw, "src_anchor", None),
                                      Get(a.kw, "dest_anchor", None))
            /\ IsAbsoluteStr(a.src) => Appended[2] = Norm(a.src)
            /\ (omitted /\ IsAbsoluteStr(a.src) /\ ~AtOrUnder(Norm(a.src), host.HOME))
                   => Appended[3] = Appended[2]
            /\ (omitted /\ ~asis /\ IsAbsoluteStr(a.src) /\ AtOrUnder(Norm(a.src), host.HOME))
                   => Appended[3] = Str(self.home)
                                    \o Slice(Norm(a.src), Len(host.HOME) + 1, Len(Norm(a.src)))

\* bind(hostHome/docs) with no destination has appended the read-only bind of
\* hostHome/docs to sandboxHome/docs, the two being different paths.
C3_Witness ==
    /\ BindReturned
    /\ last.arg = [src |-> host.HOME \o "/docs", dest |-> None, kw |-> <<>>]
    /\ self.home # HOME(host)
    /\ Appended = <<"--ro-bind-try", host.HOME \o "/docs", Str(self.home) \o "/docs">>

\* The value of option k for entry e of a bind_all with shared keyword arguments kw.
EntryOption(e, kw, k) ==
    IF e.isdict /\ k \in DOMAIN e.d THEN e.d[k]
    ELSE IF k \in DOMAIN kw THEN kw[k]
    ELSE BIND_OPTIONS[k]

EntryInstruction(e, kw) ==
    Instruction(IF e.isdict THEN e.d.src ELSE e.p,
                IF e.isdict /\ "dest" \in DOMAIN e.d THEN e.d.dest ELSE None,
                EntryOption(e, kw, "mode"), EntryOption(e, kw, "asis"),
                EntryOption(e, kw, "src_anchor"), EntryOption(e, kw, "dest_anchor"))

BindAllReturned == last.op = "bind_all" /\ raised = ""

\* C4: bind_all appends exactly one bind instruction per entry, in the order of the
\* entries and with repeated entries repeated; a bare path is bound with the shared
\* options, a dict with the shared options overridden by its own fields.
C4_BindAllOnePerEntryInOrder ==
    BindAllReturned =>
        /\ Len(Appended) = 3 * Len(last.arg.binds)
        /\ \A i \in 1..Len(last.arg.binds) :
               SubSeq(Appended, 3 * i - 2, 3 * i)
                   = EntryInstruction(last.arg.binds[i], last.arg.kw)

\* bind_all(".cache", {"src": "bbbb", "mode": RW}, src_anchor=hostHome,
\* dest_anchor=sandboxHome) has appended the two instructions of the specification.
C4_Witness ==
    /\ BindAllReturned
    /\ host = DesktopHost
    /\ last.arg = BindAllInputs(host)[1]
    /\ Appended = << "--ro-bind-try", "/home/alice/.cache", "/home/user/.cache",
                     "--bind-try", "/home/alice/bbbb", "/home/user/bbbb" >>

-----------------------------------------------------------------------------
(* Feature activation: C5, C6, C7, C8 *)

FeatureCalled == last.op = "feature"

\* Whether two keyword-argument sets are the same.
SameKw(k1, k2) == DOMAIN k1 = DOMAIN k2 /\ \A k \in DOMAIN k1 : k1[k] = k2[k]

\* The number of times the method of feature f started in the last call.
Runs(f) == Cardinality({i \in 1..Len(last.trace) : last.trace[i] = <<"enabled", f>>})

\* Whether the last call repeats an earlier call: the same feature, the same arguments.
RepeatsEarlierCall ==
    \E i \in 1..(Len(calls) - 1) :
        /\ calls[i].op = "feature"
        /\ calls[i].arg.f = last.arg.f
        /\ SameKw(calls[i].arg.kw, last.arg.kw)

\* C5: activating a feature again with the same arguments appends nothing and enables
\* nothing; no feature's method starts twice, and none starts for a feature that was
\* already enabled.
C5_ActivationIdempotent ==
    FeatureCalled =>
        /\ RepeatsEarlierCall => (Len(args) = last.base /\ enabled = last.was /\ raised = "")
        /\ \A f \in BuiltinNames :
               /\ Runs(f) <= 1
               /\ f \in last.was => Runs(f) = 0

\* mangohud() has been called twice: the first call appended its instructions and
\* those of its dependencies, the second nothing.
C5_Witness ==
    /\ FeatureCalled
    /\ Len(calls) = 2
    /\ calls[1].arg.f = "mangohud" /\ calls[2].arg.f = "mangohud"
    /\ SameKw(calls[1].arg.kw, calls[2].arg.kw)
    /\ {"gpu", "wayland", "x11", "mangohud"} \subseteq enabled
    /\ Contains(args, "MANGOHUD")
    /\ Len(args) = last.base
    /\ last.trace = << <<"skip", "mangohud">> >>

\* The features f depends on, directly or through other features, in registry reg.
RECURSIVE DependsWithin(_, _, _)
DependsWithin(reg, f, n) ==
    LET direct == {reg[f].depends[i] : i \in 1..Len(reg[f].depends)} \cap DOMAIN reg
    IN  IF n = 0 THEN {}
        ELSE direct \cup UNION {DependsWithin(reg, d, n - 1) : d \in direct}

TransitiveDepends(reg, f) == DependsWithin(reg, f, Cardinality(DOMAIN reg))

\* A token that only the method of feature f appends ("" for desktop, whose method
\* appends nothing itself).
Marker(f) ==
    CASE f = "dbus" -> "/run/dbus"
      [] f = "x11" -> "/tmp/.X11-unix"
      [] f = "wayland" -> "QT_QPA_PLATFORM"
      [] f = "audio" -> "/dev/snd"
      [] f = "gpu" -> "/dev/dri"
      [] f = "nvidia" -> "__NV_PRIME_RENDER_OFFLOAD"
      [] f = "mangohud" -> host.HOME \o "/.config/MangoHud"
      [] f = "locale" -> "/etc/locale.conf"
      [] OTHER -> ""

\* C6: when a call appends the instructions of a feature, the instructions of every
\* feature it depends on (directly or not) that was not enabled before the call are
\* in what the call appended, before the feature's own.
C6_DependenciesFirst ==
    FeatureCalled =>
        \A f \in BuiltinNames :
            Contains(Appended, Marker(f)) =>
                \A d \in TransitiveDepends(registry, f) \ last.was :
                    /\ Contains(Appended, Marker(d))
                    /\ IndexOf(Appended, Marker(d)) < IndexOf(Appended, Marker(f))

\* wayland was enabled (and with it gpu), then mangohud was called: the call appended
\* the instructions of x11 and then mangohud's own; on a fresh instance the order in
\* the list is gpu, wayland, mangohud.
C6_Witness ==
    /\ FeatureCalled
    /\ last.arg.f = "mangohud"
    /\ last.was = {"wayland", "gpu"}
    /\ Contains(Appended, Marker("mangohud"))
    /\ IndexOf(Appended, Marker("x11")) < IndexOf(Appended, Marker("mangohud"))
    /\ IndexOf(args, Marker("gpu")) < IndexOf(args, Marker("wayland"))
    /\ IndexOf(args, Marker("wayland")) < IndexOf(args, Marker("mangohud"))

\* For each built-in feature, the features whose call activates it: itself and those
\* depending on it (desktop calls wayland, x11 and audio in its method).
Activators ==
    [f \in BuiltinNames |->
        {g \in BuiltinNames :
            \/ g = f
            \/ f \in TransitiveDepends(BuiltinFeatures, g)
            \/ g = "desktop" /\ f \in {"wayland", "x11", "audio", "gpu"}}]

Activates(call, f) == call.op = "feature" /\ call.arg.f \in Activators[f]

\* The first call that activated f (0 if none did) and the value it gave parameter k,
\* the default when the call did not pass it.
FirstActivation(f) ==
    IF \E i \in 1..Len(calls) : Activates(calls[i], f)
    THEN CHOOSE i \in 1..Len(calls) :
             Activates(calls[i], f) /\ \A j \in 1..(i - 1) : ~Activates(calls[j], f)
    ELSE 0

FirstParameter(f, k, default) ==
    LET c == calls[FirstActivation(f)]
    IN  IF c.arg.f = f THEN Get(c.arg.kw, k, default) ELSE default

\* How many instructions of the list bind the first shader cache directory read-write.
ShaderCacheBinds ==
    LET cache == ShaderCaches(host)[1]
    IN  Cardinality({i \in 1..(Len(args) - 1) : args[i] = "--bind-try" /\ args[i + 1] = cache})

MangohudSetenvs ==
    Cardinality({i \in 1..(Len(args) - 1) : args[i] = "--setenv" /\ args[i + 1] = "MANGOHUD"})

\* C7: the first activation's parameters win. The shader cache binds are in the list
\* exactly when the first activation of gpu, explicit or as a dependency with the
\* default, had shader_cache true, and likewise MANGOHUD for mangohud's enable; a call
\* of an enabled feature, whatever its arguments, changes nothing.
C7_FirstParametersWin ==
    /\ ShaderCacheBinds =
           (IF FirstActivation("gpu") # 0 /\ FirstParameter("gpu", "shader_cache", TRUE)
            THEN 1 ELSE 0)
    /\ MangohudSetenvs =
           (IF FirstActivation("mangohud") # 0 /\ FirstParameter("mangohud", "enable", TRUE)
            THEN 1 ELSE 0)
    /\ (FeatureCalled /\ last.arg.f \in last.was)
           => (Len(args) = last.base /\ enabled = last.was)

\* x11() came first and enabled gpu with the default; gpu(shader_cache=False) came
\* second, appended nothing, and the shader cache bind is still in the list.
C7_Witness ==
    /\ Len(calls) = 2
    /\ calls[1].arg.f = "x11"
    /\ calls[2].arg.f = "gpu" /\ ~Get(calls[2].arg.kw, "shader_cache", TRUE)
    /\ FirstActivation("gpu") = 1
    /\ ShaderCacheBinds = 1
    /\ Len(args) = last.base

\* C8: nvidia() on a host without /dev/nvidiactl, on an instance where nvidia was not
\* called before, raises and leaves the instruction list as it was.
C8_NvidiaFaultAppendsNothing ==
    (FeatureCalled /\ last.arg.f = "nvidia" /\ "nvidia" \notin last.was /\ ~host.nvidiactl)
        => (raised = "RuntimeError" /\ Len(args) = last.base)

-----------------------------------------------------------------------------
(* Cyclic dependencies: C9 *)

OnCycle(reg, f) == f \in TransitiveDepends(reg, f)

\* C9: the built-in features have no dependency cycle, and the first activation of a
\* feature that is on a dependency cycle raises.
C9_CycleIsAFault ==
    /\ \A f \in BuiltinNames : ~OnCycle(BuiltinFeatures, f)
    /\ (FeatureCalled /\ OnCycle(registry, last.arg.f) /\ last.arg.f \notin last.was)
           => raised # ""

-----------------------------------------------------------------------------
(* Environment instructions: C10 *)

EnvOps == {"clearenv", "setenv", "keepenv", "unsetenv"}

\* The instructions an environment call stands for, one per item: a set for each
\* variable given a value (none for a value of None or for LC_ALL), a set with the
\* host's value for each kept variable the host has, an unset for each name.
EnvTokens(op, arg) ==
    CASE op = "clearenv" -> <<"--clearenv">>
      [] op = "setenv" ->
           Flatten([i \in 1..Len(arg) |->
               IF arg[i][2].t = "none" \/ arg[i][1] = "LC_ALL" THEN <<>>
               ELSE <<"--setenv", arg[i][1],
                      IF arg[i][2].t = "int" THEN IntStr(arg[i][2].n) ELSE arg[i][2].s>>])
      [] op = "keepenv" ->
           Flatten([i \in 1..Len(arg) |->
               IF host.env[arg[i]] = None THEN <<>>
               ELSE <<"--setenv", arg[i], host.env[arg[i]]>>])
      [] op = "unsetenv" -> Flatten([i \in 1..Len(arg) |-> <<"--unsetenv", arg[i]>>])

\* clearenv(); setenv(X=1); keepenv("Y")
ClearSetKeep ==
    << [op |-> "clearenv", arg |-> <<>>],
       [op |-> "setenv", arg |-> << <<"X", VInt(1)>> >>],
       [op |-> "keepenv", arg |-> <<"Y">>] >>

LastTokens(n) == SubSeq(args, Len(args) - n + 1, Len(args))

\* C10: every environment call appends its instructions, one per item, at the end of
\* the list, so the list holds them in call order; keepenv appends nothing for a name
\* the host does not have; clearenv(), setenv(X=1), keepenv("Y") on a host with Y=2
\* leave "clear", "set X=1", "set Y=2" at the end of the list.
C10_EnvInCallOrder ==
    /\ [][last'.op \in EnvOps =>
              (args' = args \o EnvTokens(last'.op, last'.arg) /\ raised' = "")]_vars
    /\ [](calls = ClearSetKeep =>
              IF host.env["Y"] = "2"
              THEN LastTokens(7) = <<"--clearenv", "--setenv", "X", "1", "--setenv", "Y", "2">>
              ELSE LastTokens(4) = <<"--clearenv", "--setenv", "X", "1">> /\ last.base = Len(args))

\* The three calls were made on a host whose Y is 2.
C10_Witness ==
    /\ calls = ClearSetKeep
    /\ host.env["Y"] = "2"
    /\ last.op = "keepenv"
    /\ last.base = Len(args) - 3
    /\ LastTokens(7) = <<"--clearenv", "--setenv", "X", "1", "--setenv", "Y", "2">>

-----------------------------------------------------------------------------
(* setenv's skipped pairs: C11 *)

\* The pairs of a setenv call that are to be emitted, in the order given: those whose
\* value is not None and whose name is not LC_ALL.
RECURSIVE EmittedPairs(_)
EmittedPairs(kwargs) ==
    IF kwargs = <<>> THEN <<>>
    ELSE (IF Head(kwargs)[2].t = "none" \/ Head(kwargs)[1] = "LC_ALL" THEN <<>>
          ELSE <<Head(kwargs)>>) \o EmittedPairs(Tail(kwargs))

\* The names set by the instructions of a token list.
NamesSet(tokens) == {tokens[i + 1] : i \in {j \in 1..(Len(tokens) - 1) : tokens[j] = "--setenv"}}

\* C11: a setenv call raises nothing and appends three tokens for each pair that has a
\* value and is not LC_ALL, in the order of the pairs, each naming its pair; a pair
\* with value None and a pair named LC_ALL leave no instruction.
C11_SetenvSkipsNoneAndLcAll ==
    last.op = "setenv" =>
        /\ raised = ""
        /\ Len(Appended) = 3 * Len(EmittedPairs(last.arg))
        /\ \A i \in 1..Len(EmittedPairs(last.arg)) :
               /\ Appended[3 * i - 2] = "--setenv"
               /\ Appended[3 * i - 1] = EmittedPairs(last.arg)[i][1]
               /\ Appended[3 * i] # "None"
        /\ "LC_ALL" \notin NamesSet(Appended)
        /\ \A i \in 1..Len(last.arg) :
               last.arg[i][2].t = "none" => last.arg[i][1] \notin NamesSet(Appended)

\* setenv(A="a", B=None, C=10) appended the instructions for A and C only, and
\* in another call LC_ALL was skipped.
C11_Witness ==
    /\ last.op = "setenv"
    /\ Len(last.arg) = 3
    /\ last.arg[2][2].t = "none"
    /\ Appended = <<"--setenv", "A", "a", "--setenv", "C", "10">>
    /\ \E i \in 1..Len(calls) :
           /\ calls[i].op = "setenv"
           /\ \E j \in 1..Len(calls[i].arg) : calls[i].arg[j][1] = "LC_ALL"

-----------------------------------------------------------------------------
(* Try-semantics of binds: C12 *)

\* The directives that bind a host path and fail the launch when it is missing.
NonTryBinds == {"--bind", "--ro-bind", "--dev-bind"}

\* C12: no instruction of the list, whichever call produced it and whatever the
\* constructor's options, is a bind of a host path without try-semantics.
C12_EveryBindIsTry == \A i \in 1..Len(args) : args[i] \notin NonTryBinds

-----------------------------------------------------------------------------
(* Alternate root filesystem: C15 *)

\* C15: a constructor given a rootfs raises, with no instruction emitted and no
\* channel acquired.
C15_RootfsFaultsBeforeAnything ==
    (phase # "new" /\ opts.rootfs # None) =>
        (phase = "failed" /\ raised # "" /\ args = <<>> /\ pipes = <<>>)

-----------------------------------------------------------------------------
(* bind without a source: C14 *)

BindDirectives == {"--bind-try", "--ro-bind-try", "--dev-bind-try"}

\* C14: bind called with a source of None raises and appends nothing, whatever the
\* destination and the options; and every bind instruction of the list has an
\* absolute path as its source operand and as its destination operand.
C14_BindWithoutSourceFaults ==
    /\ (last.op = "bind" /\ last.arg.src = None)
           => (raised = "TypeError" /\ Len(args) = last.base)
    /\ \A i \in 1..Len(args) :
           args[i] \in BindDirectives =>
               /\ i + 2 <= Len(args)
               /\ IsAbsoluteStr(args[i + 1])
               /\ IsAbsoluteStr(args[i + 2])

\* bind(None, "/mnt") has raised and left the list as the constructor built it.
C14_Witness ==
    /\ last.op = "bind"
    /\ last.arg.src = None
    /\ last.arg.dest = "/mnt"
    /\ raised = "TypeError"
    /\ Len(calls) = 1
    /\ Len(args) = last.base
    /\ last.base > 0

-----------------------------------------------------------------------------
(* symlink: C13 *)

\* C13: symlink raises nothing and appends, for each pair in order, one instruction
\* whose operands are the pair's two paths exactly as they were given.
C13_SymlinkAsGiven ==
    last.op = "symlink" =>
        /\ raised = ""
        /\ Appended = Flatten([i \in 1..Len(last.arg) |->
                                  <<"--symlink", last.arg[i][1], last.arg[i][2]>>])

-----------------------------------------------------------------------------
(* file and bind_data: C16 *)

\* The directive file and bind_data (read-only, read-write) materialise content with.
Materialize(op, mode) ==
    IF op = "file" THEN "--file" ELSE IF mode = "rw" THEN "--bind-data" ELSE "--ro-bind-data"

\* A call of file, or of bind_data with one of its two modes.
Materializes(l) == l.op = "file" \/ (l.op = "bind_data" /\ l.arg.mode \in {"ro", "rw"})

\* What such a call is to append, given the read handle of its channel.
MaterializeTokens(l, fd) ==
    LET perms == Get(l.arg.kw, "perms", None)
        d == Absolute(l.arg.dest, Get(l.arg.kw, "anchor", None))
    IN  (IF perms # None /\ perms # "" THEN <<"--perms", perms>> ELSE <<>>)
        \o << Materialize(l.op, IF l.op = "file" THEN None ELSE l.arg.mode), IntStr(fd),
              IF Get(l.arg.kw, "asis", FALSE) THEN d ELSE InSandbox(d) >>

-----------------------------------------------------------------------------
(* Channel ends: C17 *)

\* C17: in every state the write end of every channel is closed, and every open read
\* end is the operand of an instruction of the list.
C17_ChannelEndsPaired ==
    \A i \in 1..Len(pipes) :
        /\ ~pipes[i].w_open
        /\ pipes[i].r_open => Contains(args, IntStr(pipes[i].r))

-----------------------------------------------------------------------------
(* The list only grows at its end: C18 *)

\* C18: every step of every operation leaves the tokens of the list where they are
\* and adds its own after them.
C18_AppendOnly == [][IsPrefix(args, args')]_vars

\* Two calls have each appended: the first call's instructions follow the
\* constructor's and the second call's follow the first's.
C18_Witness ==
    /\ Len(calls) = 2
    /\ calls[1].op = "symlink" /\ calls[1].arg = SymlinkInputs(host)[1]
    /\ calls[2].op = "setenv"
    /\ last.base > 6
    /\ SubSeq(args, last.base - 5, last.base)
           = <<"--symlink", "/usr/lib", "/lib", "--symlink", "/usr/bin", "/bin">>
    /\ Appended = <<"--setenv", "A", "a", "--setenv", "C", "10">>

-----------------------------------------------------------------------------
(* Ad-hoc bind requests: C19 *)

\* The instruction a request source[:destination[:mode]] asks for.
RequestedBind(request) ==
    LET m == bind_spec_match(request)
    IN  Instruction(m.src, IF m.dest = None \/ m.dest = "" THEN m.src ELSE m.dest,
                    BINDMODE_MAP[IF m.mode = None THEN "r" ELSE m.mode], FALSE, None, None)

\* C19: handle_binds over requests of the form source[:destination[:mode]] returns
\* having appended one bind instruction per request, in the order of the requests.
C19_OneBindPerRequest ==
    (last.op = "handle_binds" /\ \A i \in 1..Len(last.arg) : bind_spec_match(last.arg[i]).ok)
        => /\ raised = ""
           /\ Appended = Flatten([i \in 1..Len(last.arg) |-> RequestedBind(last.arg[i])])

-----------------------------------------------------------------------------
(* Declaration order of dependencies: C20 *)

\* The instructions of the features fs are in what the last call appended, in the
\* order of fs.
AppendedInOrder(fs) ==
    /\ \A k \in 1..Len(fs) : Contains(Appended, Marker(fs[k]))
    /\ \A k \in 1..(Len(fs) - 1) :
           IndexOf(Appended, Marker(fs[k])) < IndexOf(Appended, Marker(fs[k + 1]))

\* C20: in a call that runs a feature's method, the dependencies of the feature that
\* were not enabled before the call have their instructions appended in the order the
\* feature declares them; mangohud on a fresh instance gives gpu, wayland, x11 and
\* then its own, desktop gives gpu, wayland, x11, audio.
C20_DeclarationOrder ==
    FeatureCalled =>
        /\ \A f \in BuiltinNames :
               Runs(f) = 1 =>
                   \A i, j \in 1..Len(BuiltinFeatures[f].depends) :
                       LET di == BuiltinFeatures[f].depends[i]
                           dj == BuiltinFeatures[f].depends[j]
                       IN  (i < j /\ di \notin last.was /\ dj \notin last.was)
                               => AppendedInOrder(<<di, dj>>)
        /\ (last.arg.f = "mangohud" /\ last.was = {})
               => AppendedInOrder(<<"gpu", "wayland", "x11", "mangohud">>)
        /\ (last.arg.f = "desktop" /\ last.was = {})
               => AppendedInOrder(<<"gpu", "wayland", "x11", "audio">>)

\* desktop() on a fresh instance: gpu was enabled by wayland, and the list holds the
\* instructions of gpu, wayland, x11 and audio in this order.
C20_Witness ==
    /\ FeatureCalled
    /\ last.arg.f = "desktop"
    /\ last.was = {}
    /\ enabled = {"desktop", "wayland", "gpu", "x11", "audio"}
    /\ AppendedInOrder(<<"gpu", "wayland", "x11", "audio">>)

-----------------------------------------------------------------------------
(* The order of the steps of an activation: C21 *)

\* The features marked enabled by the first k events of the last call, with those
\* enabled before it.
EnabledAfter(k) ==
    last.was \cup {last.trace[j][2] : j \in {i \in 1..k : last.trace[i][1] = "add"}}

DeclaredDepends(f) == {registry[f].depends[i] : i \in 1..Len(registry[f].depends)}

\* C21: no call disables a feature, and at every point of a call, from the moment a
\* feature is marked enabled, every feature it declares as a dependency is marked
\* enabled.
C21_EnabledImpliesDependenciesEnabled ==
    FeatureCalled =>
        /\ last.was \subseteq enabled
        /\ \A k \in 1..Len(last.trace) :
               last.trace[k][1] = "add"
                   => DeclaredDepends(last.trace[k][2]) \subseteq EnabledAfter(k)

-----------------------------------------------------------------------------
(* Relative paths: C22 *)

\* The working directory of the process when the instance was constructed.
ConstructionCwd == Norm((CHOOSE h \in Hosts : h.hostname = host.hostname).cwd)

IsRelativeStr(path) == path # None /\ ~IsAbsoluteStr(path)

-----------------------------------------------------------------------------
(* The clear-environment instruction: C23 *)

\* The positions of the list that hold the token t.
Positions(t) == {i \in 1..Len(args) : args[i] = t}

\* No call of the run was an explicit clearenv().
NoClearenvCall == \A i \in 1..Len(calls) : calls[i].op # "clearenv"

\* C23: on an instance constructed with clearenv true the list holds exactly one
\* clear-environment instruction and it is before every set-environment instruction,
\* after the constructor and after any setenv, keepenv and feature calls that follow;
\* on an instance constructed with clearenv false the list holds none.
C23_OneClearBeforeEverySet ==
    (phase = "ready" /\ NoClearenvCall) =>
        IF opts.clearenv
        THEN /\ Cardinality(Positions("--clearenv")) = 1
             /\ \A c \in Positions("--clearenv"), s \in Positions("--setenv") : c < s
        ELSE Positions("--clearenv") = {}

\* An instance constructed with clearenv true, after setenv(X=1) and wayland(), which
\* ends by keeping WAYLAND_DISPLAY: the constructor and both calls have added set
\* instructions, all after the one clear.
C23_Witness ==
    /\ opts.clearenv
    /\ Len(calls) = 2
    /\ calls[1] = [op |-> "setenv", arg |-> << <<"X", VInt(1)>> >>]
    /\ calls[2] = [op |-> "feature", arg |-> [f |-> "wayland", kw |-> <<>>]]
    /\ LastTokens(3) = <<"--setenv", "WAYLAND_DISPLAY", "wayland-0">>
    /\ Cardinality(Positions("--setenv")) > 5
    /\ Positions("--clearenv") # {}

-----------------------------------------------------------------------------
(* The synthesized identity files and the binds of /etc: C24 *)

\* The destinations _init_system_id materializes a synthesized file at.
IdentityFiles ==
    { "/etc/nsswitch.conf", "/etc/passwd", "/etc/passwd.OLD", "/etc/passwd-",
      "/etc/group", "/etc/group-", "/etc/hosts", "/etc/hostname",
      "/etc/subuid", "/etc/subuid-", "/etc/subgid", "/etc/subgid-", "/etc/fstab" }

\* The host paths the constructor binds for /etc: the configured etc_binds, or /etc.
EtcBinds ==
    IF opts.etc_binds # <<>> THEN {opts.etc_binds[i] : i \in 1..Len(opts.etc_binds)}
    ELSE {"/etc"}

\* The positions of the read-only binds of v onto itself.
EtcBindAt(v) ==
    {i \in 1..(Len(args) - 2) :
        args[i] = "--ro-bind-try" /\ args[i + 1] = v /\ args[i + 2] = v}

\* The positions of the instructions that materialize content at d.
MaterializedAt(d) ==
    {i \in 1..(Len(args) - 2) :
        args[i] \in {"--ro-bind-data", "--bind-data", "--file"} /\ args[i + 2] = d}

\* C24: in the list the constructor leaves, each path of etc_binds (or /etc) is bound
\* read-only, and every synthesized identity file is materialized once, after each of
\* those binds, and no later instruction names its destination.
C24_IdentityFilesAfterEtcBinds ==
    phase = "ready" =>
        /\ \A v \in EtcBinds : EtcBindAt(v) # {}
        /\ \A d \in IdentityFiles :
               /\ Cardinality(MaterializedAt(d)) = 1
               /\ \A i \in MaterializedAt(d) :
                      /\ args[i] = "--ro-bind-data"
                      /\ \A v \in EtcBinds : \A j \in EtcBindAt(v) : j < i
                      /\ \A k \in Positions(d) : k <= i + 2

\* The constructor has returned with etc_binds naming the host's /etc/passwd: the list
\* binds the host file and materializes the synthesized /etc/passwd after it.
C24_Witness ==
    /\ phase = "ready"
    /\ last.op = "__init__"
    /\ opts.etc_binds = <<"/etc/passwd", "/etc/resolv.conf">>
    /\ \E j \in EtcBindAt("/etc/passwd"), i \in MaterializedAt("/etc/passwd") : j < i

-----------------------------------------------------------------------------
(* LC_ALL: C25 *)

\* C25: after the constructor and after any setenv, keepenv and feature calls, on any
\* host, the list holds no instruction that sets LC_ALL.
C25_LcAllNeverSet ==
    phase = "ready" =>
        \A i \in Positions("--setenv") : i < Len(args) => args[i + 1] # "LC_ALL"

-----------------------------------------------------------------------------
(* A feature that faulted: C26 *)

\* C26: on a host without /dev/nvidiactl every nvidia() call raises, the second as the
\* first, and nvidia is not left among the enabled features.
C26_FaultedFeatureNotActive ==
    (FeatureCalled /\ last.arg.f = "nvidia" /\ ~host.nvidiactl) =>
        /\ raised = "RuntimeError"
        /\ "nvidia" \notin enabled

-----------------------------------------------------------------------------
(* Permission directives: C27 *)

MaterializeDirectives == {"--file", "--ro-bind-data", "--bind-data"}

\* The channel numbers the list refers to, after --seccomp or a materialize directive.
ReferredChannels ==
    {args[i + 1] : i \in {j \in 1..(Len(args) - 1) :
                              args[j] \in MaterializeDirectives \cup {"--seccomp"}}}

\* C27: every --perms in the list is immediately followed (after its value) by the
\* materialize directive it applies to, and every channel opened has an instruction
\* that refers to it; so also after bind_data with perms and mode DEV.
C27_PermsFollowedByMaterialize ==
    phase = "ready" =>
        /\ \A i \in Positions("--perms") :
               i + 2 <= Len(args) /\ args[i + 2] \in MaterializeDirectives
        /\ \A k \in 1..Len(pipes) : IntStr(pipes[k].r) \in ReferredChannels

-----------------------------------------------------------------------------
(* The binds of the built-in features: C28 *)

\* The (directive, source, destination) triples among the tokens the last call appended.
AppendedBinds ==
    {SubSeq(Appended, i, i + 2) : i \in {j \in 1..(Len(Appended) - 2) :
                                            Appended[j] \in BindDirectives}}

\* C28: every bind a built-in feature appends has the host path as source and that
\* path's sandbox-side name as destination; a call that activates x11 binds
\* hostHome/.Xauthority onto sandboxHome/.Xauthority.
C28_FeatureBindsHostToSandbox ==
    FeatureCalled =>
        /\ \A b \in AppendedBinds : b[3] = InSandbox(b[2])
        /\ "x11" \in (enabled \ last.was) =>
               << "--bind-try", host.HOME \o "/.Xauthority",
                  Str(self.home) \o "/.Xauthority" >> \in AppendedBinds

=============================================================================
